---- MODULE Spec2Model ----
(***************************************************************************)
(* Simulated-annealing tree packer (src/python/sa_v2.py) and the grid      *)
(* layout builder (src/python/python_sa.py).                               *)
(*                                                                         *)
(* Geometry is modelled on an integer lattice.  A polygon is the set of    *)
(* lattice cells it covers; a cell is the closed square of side            *)
(* ScaleFactor whose lower-left corner is the pair <<x, y>> naming it.     *)
(* Rotations are by eighth turns: the upright outline and the outline      *)
(* tilted by an eighth turn are given as cell sets, and quarter turns map  *)
(* the lattice onto itself.  Translations are by multiples of ScaleFactor. *)
(* All arithmetic is exact: binary floating-point rounding of the source's *)
(* float values is not modelled.                                           *)
(*                                                                         *)
(* Python lists are 0-based; the sequences below are 1-based.              *)
(***************************************************************************)
EXTENDS Integers, Sequences, FiniteSets, TLC

VARIABLES
    sa,         \* locals of one run_simulated_annealing call (SpecSA)
    sa_pc,      \* "loop" | "done": position of that call ("off" under Spec)
    sa_ret,     \* value returned by that call, <<>> before it returns
    pc,                 \* position of main() ("off" under SpecSA)
    dict_of_tree_list,  \* the Solution: group id -> list of trees
    task,               \* per group: the state of its task in the pool
    worker_valid,       \* per group: validate_no_overlaps at line 349 of its worker
    outq,               \* results the pool holds for main, in completion order
    finished_tasks,
    improved_count,
    time_up,            \* time.time() - start_time > KAGGLE_TIME_LIMIT_SEC
    output_csv,         \* rows of OUTPUT_CSV, "absent" while never written
    final_saves,        \* executions of the save in the finally clause
    stop_reason,        \* how the result loop was left, "none" before
    fb          \* locals of one find_best_trees_with_collision call (SpecGrid)

sa_vars == <<sa, sa_pc, sa_ret>>

main_vars == <<pc, dict_of_tree_list, task, worker_valid, outq, finished_tasks, improved_count,
               time_up, output_csv, final_saves, stop_reason>>

vars == <<sa, sa_pc, sa_ret, pc, dict_of_tree_list, task, worker_valid, outq, finished_tasks,
          improved_count, time_up, output_csv, final_saves, stop_reason, fb>>

----------------------------------------------------------------------------
(* Bounds of the model *)

MaxTrees == 2       \* trees per instance in the single-worker specification
MaxCoord == 2       \* initial centre coordinates range over 0..MaxCoord
NumGroups == 3      \* groups in the input file of main()
NumProcesses == 2   \* multiprocessing.cpu_count()
MaxGridN == 4       \* find_best_trees_with_collision(n) for n in 1..MaxGridN

(* Program constants *)

ScaleFactor == 2            \* scale_factor (1e18 in the source, scaled down)
SmallNThreshold == 3        \* is_small_n = n_trees <= 50 (scaled down)
GravityInvSmall == 10000    \* 1 / gravity_weight for small instances (1e-4)
GravityInvLarge == 1000000  \* 1 / gravity_weight for large instances (1e-6)
MAX_ITER == 1               \* MAX_ITER (800000 in the source, scaled down)
SAVE_EVERY_N_GROUPS == 2    \* SAVE_EVERY_N_GROUPS (20 in the source, scaled down)
Eps == 1                    \* the merge threshold 1e-12, in the model's unit of length

----------------------------------------------------------------------------
(* Helpers *)

Max2(a, b) == IF a >= b THEN a ELSE b

Min2(a, b) == IF a <= b THEN a ELSE b

SetMin(S) == CHOOSE x \in S : \A y \in S : x <= y

SetMax(S) == CHOOSE x \in S : \A y \in S : x >= y

RECURSIVE SeqSum(_)
SeqSum(s) == IF s = <<>> THEN 0 ELSE Head(s) + SeqSum(Tail(s))

----------------------------------------------------------------------------
(* Geometry: shapely's affinity.rotate / affinity.translate / bounds /     *)
(* disjoint / touches on cell polygons                                     *)

\* One quarter turn counter-clockwise of cell c about the lattice point (ox, oy).
RotCell1(c, ox, oy) ==
    <<ox - (c[2] - oy) - ScaleFactor, oy + (c[1] - ox)>>

RECURSIVE RotCell(_, _, _, _)
RotCell(c, q, ox, oy) ==
    IF q = 0 THEN c ELSE RotCell(RotCell1(c, ox, oy), q - 1, ox, oy)

\* affinity.translate(poly, xoff, yoff)
translate(poly, xoff, yoff) ==
    {<<c[1] + xoff, c[2] + yoff>> : c \in poly}

\* The tree outline in template units: a base of two cells, a tip and a trunk.
TemplateCells == {<<-1, 0>>, <<0, 0>>, <<0, 1>>, <<0, -1>>}

initial_polygon == {<<c[1] * ScaleFactor, c[2] * ScaleFactor>> : c \in TemplateCells}

\* The cells the outline covers after an eighth turn about the origin: the
\* tip points up and to the left, and the bounding box is a square smaller
\* than the long side of the upright outline (the source's outline measures
\* 0.7 x 1.0 upright and about 0.81 x 0.81 at 45 degrees).
TiltedCells == {<<-1, 0>>, <<-1, -1>>, <<0, 0>>}

tilted_polygon == {<<c[1] * ScaleFactor, c[2] * ScaleFactor>> : c \in TiltedCells}

\* initial_polygon turned by `angle` eighth turns about the origin
RotatedTemplate(angle) ==
    {RotCell(c, (angle % 8) \div 2, 0, 0) :
        c \in IF angle % 2 = 0 THEN initial_polygon ELSE tilted_polygon}

\* affinity.rotate(poly, angle, origin=(ox, oy)) of a tree outline about its
\* own centre (ox, oy); angle counted in eighth turns.
rotate(poly, angle, ox, oy) ==
    LET rel == translate(poly, -ox, -oy)
        a == CHOOSE a \in 0..7 : RotatedTemplate(a) = rel
    IN  translate(RotatedTemplate((a + angle) % 8), ox, oy)

\* Polygon.bounds: (minx, miny, maxx, maxy)
bounds(poly) ==
    <<SetMin({c[1] : c \in poly}), SetMin({c[2] : c \in poly}),
      SetMax({c[1] : c \in poly}) + ScaleFactor, SetMax({c[2] : c \in poly}) + ScaleFactor>>

\* Two closed cells share at least one point.
CellsMeet(c, d) ==
    /\ c[1] - d[1] <= ScaleFactor /\ d[1] - c[1] <= ScaleFactor
    /\ c[2] - d[2] <= ScaleFactor /\ d[2] - c[2] <= ScaleFactor

\* a.disjoint(b): the two closed point sets share no point.
disjoint(a, b) == \A c \in a : \A d \in b : ~CellsMeet(c, d)

\* a.touches(b): they share a point but their interiors share none.
touches(a, b) == (~disjoint(a, b)) /\ (a \cap b = {})

\* The overlap test used by the per-move check and by the validator.
overlaps(a, b) == (~disjoint(a, b)) /\ (~touches(a, b))

----------------------------------------------------------------------------
(* class ChristmasTree *)

create_polygon(center_x, center_y, angle) ==
    translate(rotate(initial_polygon, angle, 0, 0),
              center_x * ScaleFactor, center_y * ScaleFactor)

ChristmasTree(center_x, center_y, angle) ==
    [center_x |-> center_x, center_y |-> center_y, angle |-> angle,
     polygon |-> create_polygon(center_x, center_y, angle)]

----------------------------------------------------------------------------
(* Fast helper functions *)

envelope_from_bounds(bounds_list) ==
    IF bounds_list = <<>> THEN <<0, 0, 0, 0>>
    ELSE <<SetMin({bounds_list[k][1] : k \in DOMAIN bounds_list}),
           SetMin({bounds_list[k][2] : k \in DOMAIN bounds_list}),
           SetMax({bounds_list[k][3] : k \in DOMAIN bounds_list}),
           SetMax({bounds_list[k][4] : k \in DOMAIN bounds_list})>>

get_tree_list_side_length_fast(polygons) ==
    IF polygons = <<>> THEN 0
    ELSE LET e == envelope_from_bounds([k \in DOMAIN polygons |-> bounds(polygons[k])])
         IN  Max2(e[3] - e[1], e[4] - e[2]) \div ScaleFactor

\* Variant: only the polygons whose bounding box lies within poly's are
\* candidates.
strtree_query_within(polygons, i) ==
    LET b == bounds(polygons[i])
    IN  {j \in DOMAIN polygons :
            LET o == bounds(polygons[j])
            IN  b[1] <= o[1] /\ b[2] <= o[2] /\ o[3] <= b[3] /\ o[4] <= b[4]}

\* STRtree.query(poly): indices of the polygons whose bounding box meets poly's.
strtree_query(polygons, i) ==
    LET b == bounds(polygons[i])
    IN  {j \in DOMAIN polygons :
            LET o == bounds(polygons[j])
            IN  ~(b[3] < o[1] \/ b[1] > o[3] \/ b[4] < o[2] \/ b[2] > o[4])}

validate_no_overlaps(polygons) ==
    \A i \in DOMAIN polygons :
        \A j \in strtree_query(polygons, i) :
            j = i \/ ~overlaps(polygons[i], polygons[j])

----------------------------------------------------------------------------
(* run_simulated_annealing: the worker *)

is_small_n(n_trees) == n_trees <= SmallNThreshold

\* Variant: small instances get no longer budget.
effective_max_iter_flat(n_trees, max_iterations) == max_iterations

\* lines 159-164
effective_max_iter(n_trees, max_iterations) ==
    IF is_small_n(n_trees) THEN max_iterations * 3 ELSE max_iterations

\* 1 / gravity_weight
gravity_inv(n_trees) ==
    IF is_small_n(n_trees) THEN GravityInvSmall ELSE GravityInvLarge

\* (side length in template units): max(maxx - minx, maxy - miny) * inv_scale_f
side_len_from_env(env) ==
    Max2(env[3] - env[1], env[4] - env[2]) \div ScaleFactor

\* energy_from(env, dist_sum) -> (energy, side_len).  The source's energy is
\*   side_len + gravity_weight * (dist_sum * inv_scale_f2) / max(1, n_trees);
\* it is kept here multiplied by the positive constant
\*   ScaleFactor^2 * max(1, n_trees) / gravity_weight
\* so that it stays an integer; comparisons and the sign of delta are unchanged.
energy_from(env_local, dist_sum_local, n_trees) ==
    LET side_len == side_len_from_env(env_local)
    IN  <<side_len * ScaleFactor * ScaleFactor * Max2(1, n_trees) * gravity_inv(n_trees)
            + dist_sum_local,
          side_len>>

envelope_from_bounds_replace(bounds_list, replace_i, replace_bounds) ==
    IF bounds_list = <<>> THEN <<0, 0, 0, 0>>
    ELSE envelope_from_bounds(
            [k \in DOMAIN bounds_list |->
                IF k = replace_i THEN replace_bounds ELSE bounds_list[k]])

\* Variant: only the two lower extrema are watched.
need_recompute_lower_only(env, orig_bounds, new_bounds) ==
    \/ (orig_bounds[1] = env[1] /\ new_bounds[1] > env[1])
    \/ (orig_bounds[2] = env[2] /\ new_bounds[2] > env[2])

\* lines 291-296
need_recompute(env, orig_bounds, new_bounds) ==
    \/ (orig_bounds[1] = env[1] /\ new_bounds[1] > env[1])
    \/ (orig_bounds[2] = env[2] /\ new_bounds[2] > env[2])
    \/ (orig_bounds[3] = env[3] /\ new_bounds[3] < env[3])
    \/ (orig_bounds[4] = env[4] /\ new_bounds[4] < env[4])

\* lines 300-305: the O(1) path
fast_env(env, new_bounds) ==
    <<Min2(env[1], new_bounds[1]), Min2(env[2], new_bounds[2]),
      Max2(env[3], new_bounds[3]), Max2(env[4], new_bounds[4])>>

\* lines 297-305
cand_env_of(env, current_bounds, idx, new_bounds) ==
    IF need_recompute(env, current_bounds[idx], new_bounds)
    THEN envelope_from_bounds_replace(current_bounds, idx, new_bounds)
    ELSE fast_env(env, new_bounds)

\* Variant: boxes that only touch are skipped as well.
bbox_pruned_touching(new_bounds, other_bounds) ==
    \/ new_bounds[3] <= other_bounds[1] \/ new_bounds[1] >= other_bounds[3]
    \/ new_bounds[4] <= other_bounds[2] \/ new_bounds[2] >= other_bounds[4]

\* line 272: the bounding boxes are strictly separated, so k is skipped
bbox_pruned(new_bounds, other_bounds) ==
    \/ new_bounds[3] < other_bounds[1] \/ new_bounds[1] > other_bounds[3]
    \/ new_bounds[4] < other_bounds[2] \/ new_bounds[2] > other_bounds[4]

\* Variant: the scan does not skip the moved tree itself.
collision_of_self(current_polys, current_bounds, idx, new_poly, new_bounds) ==
    \E k \in DOMAIN current_polys :
        /\ ~bbox_pruned(new_bounds, current_bounds[k])
        /\ overlaps(new_poly, current_polys[k])

\* Variant: a candidate that only touches another tree counts as a collision.
collision_of_touching(current_polys, current_bounds, idx, new_poly, new_bounds) ==
    \E k \in DOMAIN current_polys :
        /\ k # idx
        /\ ~bbox_pruned(new_bounds, current_bounds[k])
        /\ ~disjoint(new_poly, current_polys[k])

\* Variant: the scan stops before idx instead of skipping it.
collision_of_below_idx(current_polys, current_bounds, idx, new_poly, new_bounds) ==
    \E k \in DOMAIN current_polys :
        /\ k < idx
        /\ ~bbox_pruned(new_bounds, current_bounds[k])
        /\ overlaps(new_poly, current_polys[k])

\* lines 267-278: the per-move collision scan
collision_of(current_polys, current_bounds, idx, new_poly, new_bounds) ==
    \E k \in DOMAIN current_polys :
        /\ k # idx
        /\ ~bbox_pruned(new_bounds, current_bounds[k])
        /\ overlaps(new_poly, current_polys[k])

\* line 314: T > 1e-10, for T = effective_t_start * cooling_rate^cooled.  T
\* falls to t_end = T_END = 0.003 (line 372) when the factor has been applied
\* effective_max_iter times and is above 1e-10 up to there.
temperature_above_floor(cooled, budget) == cooled <= budget

\* Variant: a candidate that does not lower the energy is never accepted.
accept_of_greedy(delta, u, t_above_floor) == delta < 0

\* lines 310-316.  u stands for the draw random.random() < prob with
\* prob = exp(-delta * 1000 / T), which decides only when 0 < prob < 1, that
\* is when delta > 0; for delta = 0 the source has prob = exp(0) = 1.0 and
\* random.random() < 1.0 always holds.
accept_of(delta, u, t_above_floor) ==
    IF delta < 0 THEN TRUE
    ELSE IF t_above_floor THEN (delta = 0 \/ u) ELSE FALSE

\* Variant: a collision leaves the temperature as it is.
cooled_on_collision_skipped(cooled) == cooled

\* line 281: T *= cooling_rate before the continue.  The temperature is kept
\* as the number of factors cooling_rate applied to effective_t_start.
cooled_on_collision(cooled) == cooled + 1

\* line 337: T *= cooling_rate at the end of the loop body
cooled_at_end(cooled) == cooled + 1

\* Variant: the two corrections carry the wrong signs.
cand_dist_sum_of_swapped(dist_sum, old_d, new_d) == dist_sum + old_d - new_d

\* line 287: the incremental update of the distance accumulator
cand_dist_sum_of(dist_sum, old_d, new_d) == dist_sum - old_d + new_d

\* Variant: the comparison points the wrong way.
is_new_best_gt(new_real_score, best_real_score) == new_real_score > best_real_score

\* Variant: a tie counts as a new best.
is_new_best_le(new_real_score, best_real_score) == new_real_score <= best_real_score

\* line 330: the accepted candidate is a new best
is_new_best(new_real_score, best_real_score) == new_real_score < best_real_score

\* Variant: the new centre abscissa is written to every placement.
state_after_accept_all(state, idx, new_poly, new_cx, new_cy, new_angle) ==
    [k \in DOMAIN state |->
        IF k = idx
        THEN [poly |-> new_poly, cx |-> new_cx, cy |-> new_cy, angle |-> new_angle]
        ELSE [state[k] EXCEPT !.cx = new_cx]]

\* lines 321-324: target = state[idx] takes the candidate
state_after_accept(state, idx, new_poly, new_cx, new_cy, new_angle) ==
    [state EXCEPT ![idx] =
        [poly |-> new_poly, cx |-> new_cx, cy |-> new_cy, angle |-> new_angle]]

\* line 230 and lines 333-335: the values cx, cy, angle of every placement
params_of(state) ==
    [k \in DOMAIN state |->
        [cx |-> state[k].cx, cy |-> state[k].cy, angle |-> state[k].angle]]

\* Variant: the snapshot shares its entries with state and follows every
\* accepted move.
snapshot_after_aliased(best_state_params, state, new_best) == params_of(state)

\* lines 330-335: the snapshot after an accepted move
snapshot_after(best_state_params, state, new_best) ==
    IF new_best THEN params_of(state) ELSE best_state_params

\* lines 154-234: the locals after initialisation
SAInit(group_id, initial_trees, max_iterations) ==
    LET n_trees == Len(initial_trees)
        state == [k \in 1..n_trees |->
                    [poly  |-> initial_trees[k].polygon,
                     cx    |-> initial_trees[k].center_x * ScaleFactor,
                     cy    |-> initial_trees[k].center_y * ScaleFactor,
                     angle |-> initial_trees[k].angle]]
        current_polys == [k \in 1..n_trees |-> state[k].poly]
        current_bounds == [k \in 1..n_trees |-> bounds(current_polys[k])]
        env == envelope_from_bounds(current_bounds)
        dist_sum == SeqSum([k \in 1..n_trees |->
                        state[k].cx * state[k].cx + state[k].cy * state[k].cy])
        e == energy_from(env, dist_sum, n_trees)
    IN  [group_id |-> group_id,
         initial_trees |-> initial_trees,
         n_trees |-> n_trees,
         effective_max_iter |-> effective_max_iter(n_trees, max_iterations),
         state |-> state,
         current_polys |-> current_polys,
         current_bounds |-> current_bounds,
         env |-> env,
         dist_sum |-> dist_sum,
         current_energy |-> e[1],
         best_state_params |-> params_of(state),
         best_real_score |-> e[2],
         i |-> 0,            \* iterations of the for loop completed
         cooled |-> 0,       \* T = effective_t_start * cooling_rate^cooled
         downhill |-> FALSE, \* delta < 0 held in the last iteration
         outcome |-> "none"] \* what the last iteration did

\* lines 236-337: one iteration of the loop, with the draws idx, dx, dy, d_angle, u
SAIterate(st, idx, dx, dy, d_angle, u) ==
    LET target == st.state[idx]
        orig_poly == target.poly
        orig_cx == target.cx
        orig_cy == target.cy
        orig_angle == target.angle
        rotated_poly == rotate(orig_poly, d_angle, orig_cx, orig_cy)
        new_poly == translate(rotated_poly, dx, dy)
        new_bounds == bounds(new_poly)
        new_cx == orig_cx + dx
        new_cy == orig_cy + dy
        new_angle == orig_angle + d_angle
        collision == collision_of(st.current_polys, st.current_bounds, idx,
                                  new_poly, new_bounds)
        old_d == orig_cx * orig_cx + orig_cy * orig_cy
        new_d == new_cx * new_cx + new_cy * new_cy
        cand_dist_sum == cand_dist_sum_of(st.dist_sum, old_d, new_d)
        cand_env == cand_env_of(st.env, st.current_bounds, idx, new_bounds)
        e == energy_from(cand_env, cand_dist_sum, st.n_trees)
        new_energy == e[1]
        new_real_score == e[2]
        delta == new_energy - st.current_energy
        accept == accept_of(delta, u,
                            temperature_above_floor(st.cooled, st.effective_max_iter))
        new_state == state_after_accept(st.state, idx, new_poly, new_cx, new_cy,
                                        new_angle)
        nextst == [st EXCEPT !.i = @ + 1]
    IN  IF collision
        THEN [nextst EXCEPT !.cooled = cooled_on_collision(@),
                            !.outcome = "collision", !.downhill = FALSE]
        ELSE IF ~accept
        THEN [nextst EXCEPT !.cooled = cooled_at_end(@),
                            !.outcome = "rejected", !.downhill = FALSE]
        ELSE [nextst EXCEPT
                !.cooled = cooled_at_end(@),
                !.outcome = "accepted",
                !.downhill = (delta < 0),
                !.current_polys = [@ EXCEPT ![idx] = new_poly],
                !.current_bounds = [@ EXCEPT ![idx] = new_bounds],
                !.state = new_state,
                !.current_energy = new_energy,
                !.env = cand_env,
                !.dist_sum = cand_dist_sum,
                !.best_real_score =
                    IF is_new_best(new_real_score, @) THEN new_real_score ELSE @,
                !.best_state_params =
                    snapshot_after(@, new_state,
                                   is_new_best(new_real_score, st.best_real_score))]

\* Variant: the last entry of the snapshot is left out.
final_trees_of_short(best_state_params) ==
    [k \in 1..(Len(best_state_params) - 1) |->
        ChristmasTree(best_state_params[k].cx \div ScaleFactor,
                      best_state_params[k].cy \div ScaleFactor,
                      best_state_params[k].angle)]

\* lines 339-347: the trees rebuilt from the best snapshot
final_trees_of(best_state_params) ==
    [k \in DOMAIN best_state_params |->
        ChristmasTree(best_state_params[k].cx \div ScaleFactor,
                      best_state_params[k].cy \div ScaleFactor,
                      best_state_params[k].angle)]

PolysOf(trees) == [k \in DOMAIN trees |-> trees[k].polygon]

\* Variant: the validator's verdict is ignored.
SAFinal_unchecked(st) ==
    <<st.group_id, final_trees_of(st.best_state_params), st.best_real_score>>

\* lines 339-353: (group_id, trees, score)
SAFinal(st) ==
    LET final_trees == final_trees_of(st.best_state_params)
        final_polys_check == [k \in DOMAIN final_trees |-> final_trees[k].polygon]
    IN  IF ~validate_no_overlaps(final_polys_check)
        THEN <<st.group_id, st.initial_trees,
               get_tree_list_side_length_fast(
                   [k \in DOMAIN st.initial_trees |-> st.initial_trees[k].polygon])>>
        ELSE <<st.group_id, final_trees, st.best_real_score>>

----------------------------------------------------------------------------
(* The single-worker specification: one call of run_simulated_annealing    *)

Coords == 0..MaxCoord

Angles == 0..7

InputTrees == {ChristmasTree(x, y, a) : x \in Coords, y \in Coords, a \in Angles}

\* The draws of one iteration: (dx, dy, d_angle).  Translations are one cell
\* along an axis, rotations an eighth turn, or a quarter turn with a shift.
Moves ==
    {<<ScaleFactor, 0, 0>>, <<-ScaleFactor, 0, 0>>, <<0, ScaleFactor, 0>>,
     <<0, -ScaleFactor, 0>>, <<0, 0, 1>>, <<-ScaleFactor, 0, 2>>}

\* The sizes of the input instances: 1..MaxTrees trees, and one size above
\* the threshold of line 157.
InstanceSizes == (1..MaxTrees) \cup {SmallNThreshold + 1}

\* Input instances: the first tree stands upright at the
\* origin, the second anywhere in the window, upright or on its side, and each
\* further tree upright above the first; the moves turn the trees to the
\* other angles.  Overlapping inputs are included (the source does not check
\* its input).
InputInstances ==
    {[k \in 1..n |->
        IF k = 1 THEN ChristmasTree(0, 0, 0)
        ELSE IF k = 2 THEN t2 ELSE ChristmasTree(0, 3 * (k - 2), 0)] :
        n \in InstanceSizes, t2 \in {t \in InputTrees : t.angle \in {0, 2}}}

SAInitState ==
    \E ts \in InputInstances :
            LET n == Len(ts) IN
            /\ sa = SAInit(n, ts, MAX_ITER)
            /\ sa_pc = "loop"
            /\ sa_ret = <<>>
            /\ pc = "off"
            /\ dict_of_tree_list = <<>>
            /\ task = <<>>
            /\ worker_valid = <<>>
            /\ outq = <<>>
            /\ finished_tasks = 0
            /\ improved_count = 0
            /\ time_up = FALSE
            /\ output_csv = "absent"
            /\ final_saves = 0
            /\ stop_reason = "none"
            /\ fb = <<>>

SAStep ==
    /\ sa_pc = "loop"
    /\ sa.i < sa.effective_max_iter
    /\ \E idx \in 1..sa.n_trees : \E m \in Moves : \E u \in BOOLEAN :
          sa' = SAIterate(sa, idx, m[1], m[2], m[3], u)
    /\ UNCHANGED <<sa_pc, sa_ret>>
    /\ UNCHANGED <<main_vars, fb>>

SAReturn ==
    /\ sa_pc = "loop"
    /\ sa.i = sa.effective_max_iter
    /\ sa_ret' = SAFinal(sa)
    /\ sa_pc' = "done"
    /\ UNCHANGED sa
    /\ UNCHANGED <<main_vars, fb>>

SANext == SAStep \/ SAReturn

SpecSA == SAInitState /\ [][SANext]_vars

----------------------------------------------------------------------------
(* Properties of the worker, checked under SpecSA *)

NoOverlappingPair(polys) ==
    \A a \in DOMAIN polys : \A b \in DOMAIN polys :
        a # b => ~overlaps(polys[a], polys[b])

InitPolys == PolysOf(sa.initial_trees)

InitFeasible == NoOverlappingPair(InitPolys)

InitSide == get_tree_list_side_length_fast(InitPolys)

BestPolys == PolysOf(final_trees_of(sa.best_state_params))

CurrentCentreSum ==
    SeqSum([k \in DOMAIN sa.state |->
                sa.state[k].cx * sa.state[k].cx + sa.state[k].cy * sa.state[k].cy])

CurrentEnvelope ==
    envelope_from_bounds([k \in DOMAIN sa.current_polys |-> bounds(sa.current_polys[k])])

\* The bounding box of the candidate that the draws (idx, m) produce now
CandBounds(idx, m) ==
    bounds(translate(rotate(sa.state[idx].poly, m[3], sa.state[idx].cx, sa.state[idx].cy),
                     m[1], m[2]))

\* C1: from an input without an overlapping pair, the current configuration
\* has no overlapping pair after every iteration (touching is allowed), and
\* the trees rebuilt from the best snapshot have none either and pass
\* validate_no_overlaps.
Thm_C1 ==
    InitFeasible =>
        /\ NoOverlappingPair(sa.current_polys)
        /\ NoOverlappingPair(BestPolys)
        /\ validate_no_overlaps(BestPolys)

\* A move was accepted that set a new best and left two trees touching.
Witness_C1 ==
    /\ InitFeasible
    /\ sa.n_trees >= 2
    /\ sa.outcome = "accepted"
    /\ sa.best_real_score < InitSide
    /\ \E a \in DOMAIN sa.current_polys : \E b \in DOMAIN sa.current_polys :
          a # b /\ touches(sa.current_polys[a], sa.current_polys[b])

\* C2: the maintained envelope env is the envelope of the current bounding
\* boxes recomputed from scratch, and for every candidate replacement that
\* takes the O(1) path, that path's envelope equals the one the O(n) rescan
\* _envelope_from_bounds_replace gives.
Thm_C2 ==
    /\ sa.env = CurrentEnvelope
    /\ \A idx \in 1..sa.n_trees : \A m \in Moves :
          LET new_bounds == CandBounds(idx, m)
          IN  ~need_recompute(sa.env, sa.current_bounds[idx], new_bounds)
              => fast_env(sa.env, new_bounds)
                 = envelope_from_bounds_replace(sa.current_bounds, idx, new_bounds)

\* After accepted moves changed the envelope, one candidate needs the rescan
\* and another takes the O(1) path and enlarges the envelope.
Witness_C2 ==
    /\ sa.outcome = "accepted"
    /\ sa.i >= 2
    /\ sa.env # envelope_from_bounds([k \in DOMAIN InitPolys |-> bounds(InitPolys[k])])
    /\ \E idx \in 1..sa.n_trees : \E m \in Moves :
          /\ need_recompute(sa.env, sa.current_bounds[idx], CandBounds(idx, m))
          /\ envelope_from_bounds_replace(sa.current_bounds, idx, CandBounds(idx, m))
             # fast_env(sa.env, CandBounds(idx, m))
    /\ \E idx \in 1..sa.n_trees : \E m \in Moves :
          /\ ~need_recompute(sa.env, sa.current_bounds[idx], CandBounds(idx, m))
          /\ fast_env(sa.env, CandBounds(idx, m)) # sa.env

\* C3: the state, the polygon list, the bounding-box list and the best
\* snapshot hold n_trees = len(initial_trees) entries throughout, and so does
\* the returned list on the validated path and on the fallback path.
Thm_C3 ==
    /\ sa.n_trees = Len(sa.initial_trees)
    /\ Len(sa.state) = sa.n_trees
    /\ Len(sa.current_polys) = sa.n_trees
    /\ Len(sa.current_bounds) = sa.n_trees
    /\ Len(sa.best_state_params) = sa.n_trees
    /\ sa_pc = "done" => Len(sa_ret[2]) = sa.n_trees

\* The worker returned rebuilt trees after a new best was found.
Witness_C3 ==
    /\ sa_pc = "done"
    /\ sa.n_trees >= 2
    /\ validate_no_overlaps(BestPolys)
    /\ sa.best_real_score < InitSide
    /\ sa_ret[2] = final_trees_of(sa.best_state_params)

\* C4: best_real_score never grows from one iteration to the next and never
\* exceeds the side length of the input configuration.
Thm_C4 ==
    /\ [](sa.best_real_score <= InitSide)
    /\ [][sa'.best_real_score <= sa.best_real_score]_vars

\* A new best was found and a later accepted move made the current side longer.
Witness_C4 ==
    /\ sa.best_real_score < InitSide
    /\ sa.outcome = "accepted"
    /\ side_len_from_env(sa.env) > sa.best_real_score

\* C5: dist_sum is the sum of the squared distances of the current centres
\* from the origin, current_energy is side_length(env) plus gravity_weight
\* times dist_sum / N (here multiplied by ScaleFactor^2 * N / gravity_weight),
\* and the returned score is the side length of the returned trees alone.
Thm_C5 ==
    /\ sa.dist_sum = CurrentCentreSum
    /\ sa.current_energy =
          side_len_from_env(CurrentEnvelope) * ScaleFactor * ScaleFactor
             * sa.n_trees * gravity_inv(sa.n_trees)
          + CurrentCentreSum
    /\ sa_pc = "done" =>
          sa_ret[3] = get_tree_list_side_length_fast(PolysOf(sa_ret[2]))

\* The worker returned an improved configuration whose centres moved.
Witness_C5 ==
    /\ sa_pc = "done"
    /\ sa_ret[3] < InitSide
    /\ sa.dist_sum # SeqSum([k \in DOMAIN sa.initial_trees |->
            ScaleFactor * ScaleFactor *
            (sa.initial_trees[k].center_x * sa.initial_trees[k].center_x
             + sa.initial_trees[k].center_y * sa.initial_trees[k].center_y)])
    /\ sa.current_energy # sa.best_real_score

\* C6: best_real_score and the best snapshot change only in an iteration that
\* accepts a candidate whose side length is strictly below best_real_score; an
\* accepted move that lowers the energy without that leaves both as they were.
Thm_C6 ==
    [][(sa'.best_state_params # sa.best_state_params
            \/ sa'.best_real_score # sa.best_real_score)
        => /\ sa'.outcome = "accepted"
           /\ sa'.i = sa.i + 1
           /\ side_len_from_env(sa'.env) < sa.best_real_score
           /\ sa'.best_real_score = side_len_from_env(sa'.env)]_vars

\* The first move was accepted with a lower energy and a side length that is
\* not below the best score, which is still that of the input.
Witness_C6 ==
    /\ sa.i = 1
    /\ sa.outcome = "accepted"
    /\ sa.downhill
    /\ side_len_from_env(sa.env) >= sa.best_real_score
    /\ sa.best_real_score = InitSide

\* The polygon of the candidate that the draws (idx, m) produce now
CandPoly(idx, m) ==
    translate(rotate(sa.state[idx].poly, m[3], sa.state[idx].cx, sa.state[idx].cy),
              m[1], m[2])

\* C17 as stated: for a single tree the worker returns the tree it was given
\* with the side length of that tree's bounding box.
Cex_C17 ==
    (sa.n_trees = 1 /\ sa_pc = "done")
    => (sa_ret[2] = sa.initial_trees /\ sa_ret[3] = InitSide)

\* C17 amended: for a single tree the scan of the other trees is empty, so no
\* overlap test is made and no candidate is refused as a collision; the
\* worker returns one tree with the side length of that tree's own bounding
\* box, which is never above the input's; the tree is the one given unless an
\* accepted move turned it so that its bounding box became strictly smaller,
\* and then the turned tree is returned.
Thm_C17 ==
    sa.n_trees = 1
    => /\ sa.outcome # "collision"
       /\ \A idx \in 1..sa.n_trees : \A m \in Moves :
             {k \in DOMAIN sa.current_polys : k # idx} = {}
             /\ ~collision_of(sa.current_polys, sa.current_bounds, idx,
                              CandPoly(idx, m), bounds(CandPoly(idx, m)))
       /\ Len(sa.best_state_params) = 1
       /\ sa.best_real_score = get_tree_list_side_length_fast(BestPolys)
       /\ sa.best_real_score <= InitSide
       /\ sa.best_real_score = InitSide
          => final_trees_of(sa.best_state_params) = sa.initial_trees
       /\ sa_pc = "done"
          => /\ Len(sa_ret[2]) = 1
             /\ sa_ret[3] = get_tree_list_side_length_fast(PolysOf(sa_ret[2]))
             /\ sa_ret[3] <= InitSide
             /\ sa_ret[3] = InitSide <=> sa_ret[2] = sa.initial_trees
             /\ sa_ret[3] < InitSide => sa_ret[2][1].angle # sa.initial_trees[1].angle

\* The worker has returned a single tree, turned and with a smaller bounding
\* box than the tree it was given.
Witness_C17 ==
    /\ sa.n_trees = 1
    /\ sa_pc = "done"
    /\ sa_ret[2] # sa.initial_trees
    /\ sa_ret[3] < InitSide
    /\ sa_ret[2][1].angle % 2 = 1

\* C18: for every candidate an iteration can still draw, the per-move check
\* reports a collision exactly when the candidate overlaps another tree in
\* area, and the validator rejects a configuration
\* exactly when it holds such a pair: on a feasible configuration the move
\* check rejects a candidate if and only if the validator rejects the
\* configuration with the candidate in place.  Pairs that only touch pass
\* both.
Thm_C18 ==
    [](LET feasible == NoOverlappingPair(sa.current_polys)
       IN  /\ validate_no_overlaps(sa.current_polys) = feasible
           /\ \A idx \in 1..sa.n_trees : \A m \in Moves :
                 sa.i < sa.effective_max_iter =>
                 LET new_poly == CandPoly(idx, m)
                     hit == collision_of(sa.current_polys, sa.current_bounds, idx,
                                         new_poly, bounds(new_poly))
                 IN  /\ hit = (\E k \in DOMAIN sa.current_polys :
                                  k # idx /\ overlaps(new_poly, sa.current_polys[k]))
                     /\ feasible
                        => hit = ~validate_no_overlaps(
                                     [sa.current_polys EXCEPT ![idx] = new_poly]))

\* Two trees touch without overlapping, the validator accepts them, and the
\* candidate just drawn was rejected because it overlapped the other tree.
Witness_C18 ==
    /\ sa.n_trees = 2
    /\ sa.outcome = "collision"
    /\ touches(sa.current_polys[1], sa.current_polys[2])
    /\ validate_no_overlaps(sa.current_polys)

\* C19: validate_no_overlaps returns True exactly when no two polygons at
\* different places of the list overlap in area, whatever their bounding
\* boxes and also when two places hold equal polygons; and the verdict on
\* which the worker returned is the verdict the validator gives again on the
\* same configuration.
Thm_C19 ==
    /\ validate_no_overlaps(InitPolys) = NoOverlappingPair(InitPolys)
    /\ validate_no_overlaps(BestPolys) = NoOverlappingPair(BestPolys)
    /\ validate_no_overlaps(<<>>)
    /\ sa_pc = "done"
       => IF validate_no_overlaps(BestPolys)
          THEN sa_ret = <<sa.group_id, final_trees_of(sa.best_state_params),
                          sa.best_real_score>>
          ELSE sa_ret = <<sa.group_id, sa.initial_trees, InitSide>>

\* The worker has returned on the validator's refusal of a best snapshot
\* whose overlapping trees have bounding boxes that only partly cover each
\* other.
Witness_C19 ==
    /\ sa_pc = "done"
    /\ ~validate_no_overlaps(BestPolys)
    /\ sa_ret[2] = sa.initial_trees
    /\ \E a \in DOMAIN BestPolys : \E b \in DOMAIN BestPolys :
          /\ a # b
          /\ overlaps(BestPolys[a], BestPolys[b])
          /\ bounds(BestPolys[a])[1] < bounds(BestPolys[b])[1]
          /\ bounds(BestPolys[a])[3] < bounds(BestPolys[b])[3]

\* C21: every iteration ends in one of the three outcomes and multiplies the
\* temperature by cooling_rate exactly once, whichever outcome it is: after k
\* iterations T = effective_t_start * cooling_rate^k, and when the loop is
\* left the factor has been applied effective_max_iter times, which with
\* cooling_rate = (t_end / effective_t_start)^(1 / effective_max_iter)
\* (line 234) is T = t_end.
Thm_C21 ==
    /\ [](sa.cooled = sa.i)
    /\ [][sa'.i = sa.i + 1
            => /\ sa'.outcome \in {"collision", "rejected", "accepted"}
               /\ sa'.cooled = sa.cooled + 1]_vars
    /\ [][sa'.i = sa.i => sa'.cooled = sa.cooled]_vars
    /\ [](sa_pc = "done"
            => sa.cooled = IF sa.n_trees <= SmallNThreshold
                           THEN 3 * MAX_ITER ELSE MAX_ITER)

\* The worker has returned after a budget whose last iteration was refused
\* as a collision and in which an earlier candidate was accepted as a new
\* best.
Witness_C21 ==
    /\ sa_pc = "done"
    /\ sa.outcome = "collision"
    /\ sa.best_real_score < InitSide
    /\ sa.cooled = 3 * MAX_ITER

\* The iteration budget of an instance of n trees
BudgetOf(n) == IF n <= SmallNThreshold THEN 3 * MAX_ITER ELSE MAX_ITER

\* Iterations still to run, plus one for the return still to come
StepsLeft ==
    (BudgetOf(sa.n_trees) - sa.i) + (IF sa_pc = "loop" THEN 1 ELSE 0)

\* C22: the loop runs for exactly max_iterations * 3 iterations when
\* N <= threshold and max_iterations otherwise: every iteration, whatever its
\* outcome, advances the count by one and stays in the loop while the budget
\* is not used up; the loop is left only with the budget used up, by the
\* finalisation that returns (group_id, trees, score) with N trees.  The
\* iterations left plus the return still to come decrease with every step,
\* and while the worker has not returned a step can be taken (an index can be
\* drawn, or the budget is used up and the finalisation runs), so the worker
\* returns.
Thm_C22 ==
    /\ [](sa.i <= BudgetOf(sa.n_trees))
    /\ [][(sa_pc = "loop" /\ sa.i < BudgetOf(sa.n_trees))
            => /\ sa_pc' = "loop"
               /\ sa'.i = sa.i + 1
               /\ sa'.outcome \in {"collision", "rejected", "accepted"}
               /\ sa_ret' = <<>>]_vars
    /\ [][(sa_pc = "loop" /\ sa.i = BudgetOf(sa.n_trees))
            => /\ sa_pc' = "done"
               /\ sa' = sa
               /\ Len(sa_ret') = 3
               /\ sa_ret'[1] = sa.group_id
               /\ Len(sa_ret'[2]) = sa.n_trees]_vars
    /\ [][sa_pc # "done"]_vars
    /\ [][StepsLeft' = StepsLeft - 1]_vars
    /\ [](StepsLeft >= 0 /\ (StepsLeft = 0 <=> sa_pc = "done"))
    /\ [](sa_pc = "loop"
            => \/ sa.i < sa.effective_max_iter /\ sa.n_trees >= 1
               \/ sa.i = sa.effective_max_iter)

\* An instance above the size threshold has returned after its budget of
\* max_iterations, whose last iteration set a new best.
Witness_C22 ==
    /\ sa_pc = "done"
    /\ sa.n_trees > SmallNThreshold
    /\ sa.i = MAX_ITER
    /\ sa.outcome = "accepted"
    /\ sa.best_real_score < InitSide
    /\ sa_ret[3] < InitSide

\* The energy of a configuration computed from scratch: side length of the
\* envelope plus gravity_weight times the mean squared distance of the
\* centres from the origin, in the units of energy_from
EnergyOf(polys, state) ==
    get_tree_list_side_length_fast(polys) * ScaleFactor * ScaleFactor
        * Len(polys) * gravity_inv(Len(polys))
    + SeqSum([k \in DOMAIN state |-> state[k].cx * state[k].cx + state[k].cy * state[k].cy])

\* C23: for every candidate an iteration can draw, with delta the energy of
\* the configuration with the candidate in place minus the energy of the
\* current one: a candidate that overlaps another tree is never accepted; a
\* candidate without collision is accepted whenever delta < 0, and for
\* delta >= 0 it is accepted exactly when the draw random.random() < prob
\* succeeds, which it always does for delta = 0 (prob = 1) and may or may not
\* for delta > 0; the temperature guard of line 314 holds in every iteration.
Thm_C23 ==
    [](sa.i < sa.effective_max_iter
       => /\ temperature_above_floor(sa.cooled, sa.effective_max_iter)
          /\ \A idx \in 1..sa.n_trees : \A m \in Moves :
                LET new_poly == CandPoly(idx, m)
                    hit == \E k \in DOMAIN sa.current_polys :
                              k # idx /\ overlaps(new_poly, sa.current_polys[k])
                    cand_polys == [sa.current_polys EXCEPT ![idx] = new_poly]
                    cand_state == [sa.state EXCEPT ![idx].cx = @ + m[1],
                                                   ![idx].cy = @ + m[2]]
                    delta == EnergyOf(cand_polys, cand_state)
                             - EnergyOf(sa.current_polys, sa.state)
                IN  \A u \in BOOLEAN :
                       LET after == SAIterate(sa, idx, m[1], m[2], m[3], u)
                       IN  /\ hit => (after.outcome = "collision"
                                      /\ after.current_polys = sa.current_polys)
                           /\ (~hit /\ delta < 0)
                              => (after.outcome = "accepted"
                                  /\ after.current_polys = cand_polys)
                           /\ (~hit /\ delta = 0) => after.outcome = "accepted"
                           /\ (~hit /\ delta > 0)
                              => after.outcome = IF u THEN "accepted" ELSE "rejected")

\* The first candidate raised the energy and was accepted all the same.
Witness_C23 ==
    /\ sa.i = 1
    /\ sa.n_trees >= 2
    /\ sa.outcome = "accepted"
    /\ ~sa.downhill
    /\ sa.current_energy > SAInit(sa.group_id, sa.initial_trees, MAX_ITER).current_energy

\* The placements at which the locals st and nx differ in polygon, bounding
\* box, centre or angle
Changed(st, nx) ==
    {k \in 1..st.n_trees :
        \/ nx.state[k] # st.state[k]
        \/ nx.current_polys[k] # st.current_polys[k]
        \/ nx.current_bounds[k] # st.current_bounds[k]}

\* C24: an iteration that refuses its candidate, as a collision or by the
\* Metropolis rule, leaves the placements, the polygon and bounding-box
\* lists, env, dist_sum, current_energy, best_real_score and the best snapshot
\* as they were; an iteration that accepts changes polygon, bounding box,
\* centre and angle of at most one placement; and in every iteration the
\* polygon list and the bounding-box list stay those of the placements.
Thm_C24 ==
    /\ [][sa'.i = sa.i + 1
            => /\ sa'.outcome \in {"collision", "rejected"}
                  => /\ sa'.state = sa.state
                     /\ sa'.current_polys = sa.current_polys
                     /\ sa'.current_bounds = sa.current_bounds
                     /\ sa'.env = sa.env
                     /\ sa'.dist_sum = sa.dist_sum
                     /\ sa'.current_energy = sa.current_energy
                     /\ sa'.best_real_score = sa.best_real_score
                     /\ sa'.best_state_params = sa.best_state_params
               /\ sa'.outcome = "accepted" => Cardinality(Changed(sa, sa')) <= 1
               /\ sa'.n_trees = sa.n_trees
               /\ sa'.initial_trees = sa.initial_trees]_vars
    /\ [](\A k \in 1..sa.n_trees :
            /\ sa.current_polys[k] = sa.state[k].poly
            /\ sa.current_bounds[k] = bounds(sa.state[k].poly))

\* The second iteration accepted a candidate for one tree of several and a
\* new best has been found; exactly one placement differs from the input.
Witness_C24 ==
    /\ sa.i = 2
    /\ sa.n_trees >= 2
    /\ sa.outcome = "accepted"
    /\ Cardinality(Changed(SAInit(sa.group_id, sa.initial_trees, MAX_ITER), sa)) = 1
    /\ sa.best_real_score < InitSide

\* Two closed boxes (minx, miny, maxx, maxy) share at least one point.
BoxesMeet(a, b) ==
    /\ Max2(a[1], b[1]) <= Min2(a[3], b[3])
    /\ Max2(a[2], b[2]) <= Min2(a[4], b[4])

\* C25: the bounding-box list holds the bounding boxes of the current
\* polygons, and for every candidate an iteration can draw: the scan skips
\* another tree exactly when its box and the candidate's share no point, so
\* boxes that only touch are tested; every skipped tree is disjoint from the
\* candidate; and the scan's verdict is the verdict of the exact overlap test
\* applied to every other tree.
Thm_C25 ==
    [](/\ \A k \in 1..sa.n_trees : sa.current_bounds[k] = bounds(sa.current_polys[k])
       /\ sa.i < sa.effective_max_iter
          => \A idx \in 1..sa.n_trees : \A m \in Moves :
                LET new_poly == CandPoly(idx, m)
                    new_bounds == bounds(new_poly)
                IN  /\ \A k \in 1..sa.n_trees :
                          k # idx
                          => /\ bbox_pruned(new_bounds, sa.current_bounds[k])
                                = ~BoxesMeet(new_bounds, bounds(sa.current_polys[k]))
                             /\ bbox_pruned(new_bounds, sa.current_bounds[k])
                                => disjoint(new_poly, sa.current_polys[k])
                    /\ collision_of(sa.current_polys, sa.current_bounds, idx,
                                    new_poly, new_bounds)
                       = (\E k \in 1..sa.n_trees :
                             k # idx /\ ~disjoint(new_poly, sa.current_polys[k])
                                     /\ ~touches(new_poly, sa.current_polys[k])))

\* The last candidate was refused by the scan, and of the candidates that can
\* be drawn now one has a box apart from another tree's, one has a box that
\* only touches another tree's box, and one overlaps another tree.
Witness_C25 ==
    /\ sa.i < sa.effective_max_iter
    /\ sa.outcome = "collision"
    /\ \E idx \in 1..sa.n_trees : \E m \in Moves : \E k \in 1..sa.n_trees :
          k # idx /\ bbox_pruned(CandBounds(idx, m), sa.current_bounds[k])
    /\ \E idx \in 1..sa.n_trees : \E m \in Moves : \E k \in 1..sa.n_trees :
          /\ k # idx
          /\ ~bbox_pruned(CandBounds(idx, m), sa.current_bounds[k])
          /\ \/ CandBounds(idx, m)[3] = sa.current_bounds[k][1]
             \/ CandBounds(idx, m)[4] = sa.current_bounds[k][2]
          /\ ~overlaps(CandPoly(idx, m), sa.current_polys[k])
    /\ \E idx \in 1..sa.n_trees : \E m \in Moves :
          collision_of(sa.current_polys, sa.current_bounds, idx,
                       CandPoly(idx, m), CandBounds(idx, m))

\* C26: the best snapshot holds the values of the input configuration until
\* it is first replaced; an iteration replaces it only by the values of the
\* whole current configuration as it stands right after that iteration's
\* accepted move, and every other iteration, accepted moves included, leaves
\* it as it is; best_real_score is the side length of the configuration the
\* snapshot describes; and on the validated path the worker returns that
\* configuration's trees with their own side length as the score.
Thm_C26 ==
    /\ [](sa.i = 0 => sa.best_state_params = params_of(sa.state))
    /\ [][sa'.best_state_params # sa.best_state_params
            => /\ sa'.outcome = "accepted"
               /\ sa'.i = sa.i + 1
               /\ \A k \in 1..sa.n_trees :
                     /\ sa'.best_state_params[k].cx = sa'.state[k].cx
                     /\ sa'.best_state_params[k].cy = sa'.state[k].cy
                     /\ sa'.best_state_params[k].angle = sa'.state[k].angle
               /\ sa'.best_real_score
                  = get_tree_list_side_length_fast(sa'.current_polys)]_vars
    /\ [][(sa'.i = sa.i + 1
           /\ ~(get_tree_list_side_length_fast(sa'.current_polys) < sa.best_real_score))
            => /\ sa'.best_state_params = sa.best_state_params
               /\ sa'.best_real_score = sa.best_real_score]_vars
    /\ [](sa.best_real_score = get_tree_list_side_length_fast(BestPolys))
    /\ [](\A k \in 1..sa.n_trees :
            BestPolys[k] = rotate(translate(initial_polygon,
                                            sa.best_state_params[k].cx,
                                            sa.best_state_params[k].cy),
                                  sa.best_state_params[k].angle,
                                  sa.best_state_params[k].cx,
                                  sa.best_state_params[k].cy))
    /\ []((sa_pc = "done" /\ validate_no_overlaps(BestPolys))
            => /\ sa_ret[2] = final_trees_of(sa.best_state_params)
               /\ sa_ret[3] = get_tree_list_side_length_fast(PolysOf(sa_ret[2])))

\* The worker has returned the trees of a best snapshot that an accepted move
\* made after it left behind: the current configuration differs from the
\* snapshot and is larger.
Witness_C26 ==
    /\ sa_pc = "done"
    /\ sa.n_trees >= 2
    /\ sa.outcome = "accepted"
    /\ sa.best_real_score < InitSide
    /\ params_of(sa.state) # sa.best_state_params
    /\ get_tree_list_side_length_fast(sa.current_polys) > sa.best_real_score
    /\ sa_ret[2] = final_trees_of(sa.best_state_params)


----------------------------------------------------------------------------
(* main(): the orchestrator *)

Groups == 1..NumGroups

\* The trees of one group of INPUT_CSV.  Group 1: a single tree, tilted so
\* that its bounding box is as small as it gets.  Group 2: two
\* trees with a gap between them.  Group 3: two trees that overlap and a third
\* one apart from them (the source does not check its input).
InputGroup(g) ==
    CASE g = 1 -> <<ChristmasTree(0, 0, 1)>>
      [] g = 2 -> <<ChristmasTree(0, 0, 0), ChristmasTree(4, 0, 0)>>
      [] g = 3 -> <<ChristmasTree(0, 0, 0), ChristmasTree(1, 0, 0),
                    ChristmasTree(6, 0, 0)>>
      [] OTHER -> <<ChristmasTree(0, 0, 3)>>

\* parse_csv(INPUT_CSV) when the file exists
parse_csv == [g \in Groups |-> InputGroup(g)]

\* save_dict_to_csv: the rows (id = "<group>_<i>", x, y, deg) of the groups in
\* ascending order of int(group_id); the whole file is rewritten.
RECURSIVE rows_from(_, _)
rows_from(d, g) ==
    IF g \notin DOMAIN d THEN <<>>
    ELSE [i \in DOMAIN d[g] |->
            <<g, i - 1, d[g][i].center_x, d[g][i].center_y, d[g][i].angle>>]
         \o rows_from(d, g + 1)

\* Variant: the rows of the first group are left out.
save_dict_to_csv_skip_first(d) == rows_from(d, 2)

save_dict_to_csv(d) == rows_from(d, 1)

\* Variant: the checkpoint comes one result early.
checkpoint_due_early(n_finished) == (n_finished + 1) % SAVE_EVERY_N_GROUPS = 0

\* line 420: finished_tasks % SAVE_EVERY_N_GROUPS == 0
checkpoint_due(n_finished) == n_finished % SAVE_EVERY_N_GROUPS = 0

\* Variant: any strictly lower score is merged.
should_merge_no_eps(score, orig_score) == score < orig_score

\* lines 404-406: the merge condition
should_merge(score, orig_score) ==
    score < orig_score /\ orig_score - score > Eps

\* Variant: the improved trees are stored under the next group's key.
merge_result_next_key(d, result) ==
    IF should_merge(result.score,
                    get_tree_list_side_length_fast(PolysOf(d[result.group_id])))
    THEN [d EXCEPT ![IF result.group_id + 1 \in DOMAIN d
                     THEN result.group_id + 1 ELSE result.group_id] = result.trees]
    ELSE d

\* Variant: the result is compared with the best score stored for any group.
merge_result_any_group(d, result) ==
    IF \E h \in DOMAIN d :
          should_merge(result.score, get_tree_list_side_length_fast(PolysOf(d[h])))
    THEN [d EXCEPT ![result.group_id] = result.trees]
    ELSE d

\* lines 400-408: the Solution after the merge of one result
merge_result(d, result) ==
    IF should_merge(result.score,
                    get_tree_list_side_length_fast(PolysOf(d[result.group_id])))
    THEN [d EXCEPT ![result.group_id] = result.trees]
    ELSE d

\* The draws of one iteration of a worker on n trees: <<idx, move, u>>
Draws(n) == (1..n) \X Moves \X BOOLEAN

\* The locals a worker can hold after k more iterations, from those in S
RECURSIVE SAReach(_, _, _)
SAReach(S, n, k) ==
    IF k = 0 THEN S
    ELSE SAReach({SAIterate(st, d[1], d[2][1], d[2][2], d[2][3], d[3]) :
                    st \in S, d \in Draws(n)}, n, k - 1)

\* What run_simulated_annealing((gid, trees, MAX_ITER, T_START, T_END)) can
\* return over all draws: <<gid, result, validator's verdict at line 349>>
WorkerRuns ==
    UNION {{<<g, SAFinal(st),
              validate_no_overlaps(PolysOf(final_trees_of(st.best_state_params)))>> :
              st \in SAReach({SAInit(g, parse_csv[g], MAX_ITER)}, Len(parse_csv[g]),
                             effective_max_iter(Len(parse_csv[g]), MAX_ITER))}
           : g \in Groups}

\* Variant: only the tasks not yet handed out are dropped; workers go on.
terminated_queued_only(t) ==
    [g \in DOMAIN t |-> IF t[g] = "queued" THEN "cancelled" ELSE t[g]]

\* Variant: the pool is left as it is (close() in place of terminate()).
terminated_not(t) == t

\* pool.terminate(): tasks in flight are killed, tasks not yet handed to a
\* worker are dropped, results not yet received are lost
terminated(t) ==
    [g \in DOMAIN t |->
        CASE t[g] \in {"received", "raised"} -> t[g]
          [] t[g] \in {"running", "finished", "failed"} -> "killed"
          [] OTHER -> "cancelled"]

MainInit ==
    /\ pc = "start"
    /\ dict_of_tree_list = <<>>
    /\ task = <<>>
    /\ worker_valid = <<>>
    /\ outq = <<>>
    /\ finished_tasks = 0
    /\ improved_count = 0
    /\ time_up = FALSE
    /\ output_csv = "absent"
    /\ final_saves = 0
    /\ stop_reason = "none"
    /\ sa = <<>>
    /\ sa_pc = "off"
    /\ sa_ret = <<>>
    /\ fb = <<>>

\* lines 360-361: the input file is read
LoadOk ==
    /\ pc = "start"
    /\ dict_of_tree_list' = parse_csv
    /\ pc' = "setup"
    /\ UNCHANGED <<task, worker_valid, outq, finished_tasks, improved_count, time_up,
                   output_csv, final_saves, stop_reason, sa_vars, fb>>

\* Variant: the handler falls through to a save of the empty Solution.
LoadMissing_saves ==
    /\ pc = "start"
    /\ pc' = "nofile"
    /\ output_csv' = save_dict_to_csv(dict_of_tree_list)
    /\ UNCHANGED <<dict_of_tree_list, task, worker_valid, outq, finished_tasks,
                   improved_count, time_up, final_saves, stop_reason, sa_vars, fb>>

\* lines 362-364: FileNotFoundError
LoadMissing ==
    /\ pc = "start"
    /\ pc' = "nofile"
    /\ UNCHANGED <<dict_of_tree_list, task, worker_valid, outq, finished_tasks,
                   improved_count, time_up, output_csv, final_saves, stop_reason,
                   sa_vars, fb>>

\* lines 366-394: the task list, the pool, imap_unordered
Setup ==
    /\ pc = "setup"
    /\ task' = [g \in DOMAIN dict_of_tree_list |-> "queued"]
    /\ worker_valid' = [g \in DOMAIN dict_of_tree_list |-> "none"]
    /\ pc' = "loop"
    /\ UNCHANGED <<dict_of_tree_list, outq, finished_tasks, improved_count, time_up,
                   output_csv, final_saves, stop_reason, sa_vars, fb>>

\* lines 366-391 stand outside the try statement: an exception raised there
\* (int(x) on a group id that is no number, Pool() failing) or a
\* KeyboardInterrupt delivered there leaves main() at once.
SetupRaise ==
    /\ pc = "setup"
    /\ pc' = "aborted"
    /\ UNCHANGED <<dict_of_tree_list, task, worker_valid, outq, finished_tasks,
                   improved_count, time_up, output_csv, final_saves, stop_reason,
                   sa_vars, fb>>

\* The pool hands the next task of the list (groups in descending order,
\* chunksize 1) to a free worker process.
Dispatch(g) ==
    /\ pc = "loop"
    /\ task[g] = "queued"
    /\ \A h \in DOMAIN task : h > g => task[h] # "queued"
    /\ Cardinality({h \in DOMAIN task : task[h] = "running"}) < NumProcesses
    /\ task' = [task EXCEPT ![g] = "running"]
    /\ UNCHANGED <<pc, dict_of_tree_list, worker_valid, outq, finished_tasks,
                   improved_count, time_up, output_csv, final_saves, stop_reason,
                   sa_vars, fb>>

\* Variant: the worker stores its trees in the Solution itself.
WorkerFinish_writes(g) ==
    /\ pc = "loop"
    /\ task[g] = "running"
    /\ \E o \in WorkerRuns :
          /\ o[1] = g
          /\ outq' = Append(outq, [group_id |-> o[2][1], trees |-> o[2][2],
                                   score |-> o[2][3], exc |-> FALSE])
          /\ worker_valid' = [worker_valid EXCEPT ![g] = o[3]]
          /\ dict_of_tree_list' = [dict_of_tree_list EXCEPT ![g] = o[2][2]]
    /\ task' = [task EXCEPT ![g] = "finished"]
    /\ UNCHANGED <<pc, finished_tasks, improved_count, time_up,
                   output_csv, final_saves, stop_reason, sa_vars, fb>>

\* A worker process returns from run_simulated_annealing.
WorkerFinish(g) ==
    /\ pc = "loop"
    /\ task[g] = "running"
    /\ \E o \in WorkerRuns :
          /\ o[1] = g
          /\ outq' = Append(outq, [group_id |-> o[2][1], trees |-> o[2][2],
                                   score |-> o[2][3], exc |-> FALSE])
          /\ worker_valid' = [worker_valid EXCEPT ![g] = o[3]]
    /\ task' = [task EXCEPT ![g] = "finished"]
    /\ UNCHANGED <<pc, dict_of_tree_list, finished_tasks, improved_count, time_up,
                   output_csv, final_saves, stop_reason, sa_vars, fb>>

\* run_simulated_annealing raises in a worker process: the pool passes the
\* exception on in place of the result.
WorkerFail(g) ==
    /\ pc = "loop"
    /\ task[g] = "running"
    /\ outq' = Append(outq, [group_id |-> g, trees |-> <<>>, score |-> 0, exc |-> TRUE])
    /\ task' = [task EXCEPT ![g] = "failed"]
    /\ UNCHANGED <<pc, dict_of_tree_list, worker_valid, finished_tasks, improved_count,
                   time_up, output_csv, final_saves, stop_reason, sa_vars, fb>>

\* Variant: the deadline stops the run by itself.
Tick_stops ==
    /\ pc = "loop"
    /\ ~time_up
    /\ time_up' = TRUE
    /\ task' = terminated(task)
    /\ outq' = <<>>
    /\ pc' = "finally"
    /\ stop_reason' = "timeout"
    /\ UNCHANGED <<dict_of_tree_list, worker_valid, finished_tasks,
                   improved_count, output_csv, final_saves, sa_vars, fb>>

\* The wall clock passes the time limit.
Tick ==
    /\ pc = "loop"
    /\ ~time_up
    /\ time_up' = TRUE
    /\ UNCHANGED <<pc, dict_of_tree_list, task, worker_valid, outq, finished_tasks,
                   improved_count, output_csv, final_saves, stop_reason, sa_vars, fb>>

\* lines 396-430: one pass of the result loop
Receive ==
    /\ pc = "loop"
    /\ outq # <<>>
    /\ ~Head(outq).exc
    /\ LET result == Head(outq)
           group_id == result.group_id
           orig_score == get_tree_list_side_length_fast(
                            PolysOf(dict_of_tree_list[group_id]))
           merge == should_merge(result.score, orig_score)
           merged == merge_result(dict_of_tree_list, result)
       IN  /\ finished_tasks' = finished_tasks + 1
           /\ dict_of_tree_list' = merged
           /\ improved_count' = IF merge THEN improved_count + 1 ELSE improved_count
           /\ IF time_up
              THEN /\ task' = terminated([task EXCEPT ![group_id] = "received"])
                   /\ outq' = <<>>
                   /\ pc' = "finally"
                   /\ stop_reason' = "timeout"
                   /\ UNCHANGED output_csv
              ELSE /\ task' = [task EXCEPT ![group_id] = "received"]
                   /\ outq' = Tail(outq)
                   /\ output_csv' =
                        IF checkpoint_due(finished_tasks + 1)
                        THEN save_dict_to_csv(merged) ELSE output_csv
                   /\ UNCHANGED <<pc, stop_reason>>
    /\ UNCHANGED <<worker_valid, time_up, final_saves, sa_vars, fb>>

\* line 396 raises the exception of a failed worker; lines 441-444
ReceiveRaise ==
    /\ pc = "loop"
    /\ outq # <<>>
    /\ Head(outq).exc
    /\ task' = terminated([task EXCEPT ![Head(outq).group_id] = "raised"])
    /\ outq' = <<>>
    /\ pc' = "finally"
    /\ stop_reason' = "exception"
    /\ UNCHANGED <<dict_of_tree_list, worker_valid, finished_tasks, improved_count,
                   time_up, output_csv, final_saves, sa_vars, fb>>

\* lines 432-434: the iterator is exhausted
LoopEnd ==
    /\ pc = "loop"
    /\ \A g \in DOMAIN task : task[g] = "received"
    /\ pc' = "finally"
    /\ stop_reason' = "normal"
    /\ UNCHANGED <<dict_of_tree_list, task, worker_valid, outq, finished_tasks,
                   improved_count, time_up, output_csv, final_saves, sa_vars, fb>>

\* Variant: the handler leaves main() without reaching the final save.
Interrupt_no_save ==
    /\ pc = "loop"
    /\ task' = terminated(task)
    /\ outq' = <<>>
    /\ pc' = "done"
    /\ stop_reason' = "interrupt"
    /\ UNCHANGED <<dict_of_tree_list, worker_valid, finished_tasks, improved_count,
                   time_up, output_csv, final_saves, sa_vars, fb>>

\* lines 436-440: KeyboardInterrupt inside the try statement
Interrupt ==
    /\ pc = "loop"
    /\ task' = terminated(task)
    /\ outq' = <<>>
    /\ pc' = "finally"
    /\ stop_reason' = "interrupt"
    /\ UNCHANGED <<dict_of_tree_list, worker_valid, finished_tasks, improved_count,
                   time_up, output_csv, final_saves, sa_vars, fb>>

\* lines 445-447: the finally clause
FinalSave ==
    /\ pc = "finally"
    /\ output_csv' = save_dict_to_csv(dict_of_tree_list)
    /\ final_saves' = final_saves + 1
    /\ pc' = "done"
    /\ UNCHANGED <<dict_of_tree_list, task, worker_valid, outq, finished_tasks,
                   improved_count, time_up, stop_reason, sa_vars, fb>>

Next ==
    \/ LoadOk
    \/ LoadMissing
    \/ Setup
    \/ SetupRaise
    \/ \E g \in Groups : Dispatch(g)
    \/ \E g \in Groups : WorkerFinish(g)
    \/ \E g \in Groups : WorkerFail(g)
    \/ Tick
    \/ Receive
    \/ ReceiveRaise
    \/ LoopEnd
    \/ Interrupt
    \/ FinalSave

Spec == MainInit /\ [][Next]_vars

----------------------------------------------------------------------------
(* Properties of the orchestrator, checked under Spec *)

SideOf(trees) == get_tree_list_side_length_fast(PolysOf(trees))

Stopped == stop_reason \in {"timeout", "interrupt"}

\* C7: a worker whose validator returned False hands back the unmodified
\* input trees of its group with the side length of the input, and receiving
\* that result changes no entry of the Solution.
Thm_C7 ==
    /\ [](\A k \in DOMAIN outq :
            (~outq[k].exc /\ worker_valid[outq[k].group_id] = FALSE)
            => /\ outq[k].trees = parse_csv[outq[k].group_id]
               /\ outq[k].score = SideOf(parse_csv[outq[k].group_id]))
    /\ [][(/\ pc = "loop"
           /\ outq # <<>>
           /\ ~Head(outq).exc
           /\ worker_valid[Head(outq).group_id] = FALSE
           /\ finished_tasks' = finished_tasks + 1)
          => dict_of_tree_list' = dict_of_tree_list]_vars

\* The result of a worker whose validator failed has been received after
\* another group was improved; the failing group still holds its input.
Witness_C7 ==
    /\ pc = "loop"
    /\ \E g \in DOMAIN task :
          /\ task[g] = "received"
          /\ worker_valid[g] = FALSE
          /\ dict_of_tree_list[g] = parse_csv[g]
    /\ \E h \in DOMAIN task :
          /\ task[h] = "received"
          /\ dict_of_tree_list[h] # parse_csv[h]

\* C8: an entry of the Solution changes only when a result for that group is
\* received whose score is strictly lower than the side length of the stored
\* entry by more than Eps, and then it becomes the result's trees; the side
\* length of a stored entry never grows.
Thm_C8 ==
    [][\A g \in DOMAIN dict_of_tree_list :
         /\ dict_of_tree_list'[g] # dict_of_tree_list[g]
            => /\ pc = "loop"
               /\ outq # <<>>
               /\ ~Head(outq).exc
               /\ Head(outq).group_id = g
               /\ Head(outq).score < SideOf(dict_of_tree_list[g])
               /\ SideOf(dict_of_tree_list[g]) - Head(outq).score > Eps
               /\ dict_of_tree_list'[g] = Head(outq).trees
         /\ \/ dict_of_tree_list'[g] = dict_of_tree_list[g]
            \/ SideOf(dict_of_tree_list'[g]) < SideOf(dict_of_tree_list[g])]_vars

\* One group has been improved, and the next result in line is lower than
\* its group's stored score by no more than Eps.
Witness_C8 ==
    /\ pc = "loop"
    /\ \E h \in DOMAIN task :
          /\ task[h] = "received"
          /\ dict_of_tree_list[h] # parse_csv[h]
    /\ outq # <<>>
    /\ ~Head(outq).exc
    /\ Head(outq).score < SideOf(dict_of_tree_list[Head(outq).group_id])
    /\ SideOf(dict_of_tree_list[Head(outq).group_id]) - Head(outq).score <= Eps

\* C9 as stated: once the input has been loaded, every execution ends with
\* exactly one final save of the Solution.
Cex_C9 ==
    pc \in {"done", "aborted"}
    => (final_saves = 1 /\ output_csv = save_dict_to_csv(dict_of_tree_list))

\* C9 within the try statement: once the result loop has been entered, the
\* loop is left only for the finally clause, whichever way it is left; the
\* finally clause saves the whole Solution exactly once and ends the run, and
\* nothing is merged after that save.
Thm_C9 ==
    /\ [](pc \in {"loop", "finally"} => final_saves = 0)
    /\ [](pc = "done"
            => /\ final_saves = 1
               /\ stop_reason \in {"normal", "timeout", "interrupt", "exception"}
               /\ output_csv = save_dict_to_csv(dict_of_tree_list))
    /\ [][(pc = "loop" /\ pc' # "loop") => pc' = "finally"]_vars
    /\ [][pc = "finally"
            => /\ pc' = "done"
               /\ final_saves' = 1
               /\ dict_of_tree_list' = dict_of_tree_list]_vars
    /\ [][pc = "done" => dict_of_tree_list' = dict_of_tree_list]_vars

\* The run ended on a KeyboardInterrupt after a group had been improved.
Witness_C9 ==
    /\ pc = "done"
    /\ stop_reason = "interrupt"
    /\ final_saves = 1
    /\ \E h \in DOMAIN task : dict_of_tree_list[h] # parse_csv[h]

RowsOf(csv, g) == SelectSeq(csv, LAMBDA r : r[1] = g)

InputRows(g) ==
    [i \in DOMAIN parse_csv[g] |->
        <<g, i - 1, parse_csv[g][i].center_x, parse_csv[g][i].center_y,
          parse_csv[g][i].angle>>]

\* C11: a group whose result the orchestrator has not received (its worker
\* was killed, it was never handed out, or its worker raised) holds its input
\* placements in the Solution at every moment, and the final save writes
\* exactly the rows of its input for it.
Thm_C11 ==
    /\ \A g \in DOMAIN task :
          task[g] # "received" => dict_of_tree_list[g] = parse_csv[g]
    /\ pc = "done"
       => \A g \in DOMAIN task :
             task[g] # "received" => RowsOf(output_csv, g) = InputRows(g)

\* The run ended after one group was improved, one worker raised and one
\* task was dropped or killed; the final save has been written.
Witness_C11 ==
    /\ pc = "done"
    /\ final_saves = 1
    /\ \E g \in DOMAIN task : task[g] = "raised"
    /\ \E g \in DOMAIN task : task[g] \in {"killed", "cancelled"}
    /\ \E h \in DOMAIN task :
          /\ task[h] = "received"
          /\ dict_of_tree_list[h] # parse_csv[h]

\* C12 as stated: after a worker has raised, the other groups are still
\* optimized to the end and their results received.
Cex_C12 ==
    (pc = "done" /\ stop_reason = "exception")
    => \A g \in DOMAIN task : task[g] \in {"received", "raised"}

\* C12 amended: the exception of a failed worker is raised in main() when its
\* turn in the result iterator comes; main() reports it and terminates the
\* pool, so the other workers in flight are killed, the tasks not yet handed
\* out are dropped and results not yet received are lost.  The results
\* received before it stay merged, every other group, the failing one
\* included, keeps its input placements, nothing is merged afterwards and the
\* final save follows.
Thm_C12 ==
    /\ [](stop_reason = "exception"
            => /\ pc \in {"finally", "done"}
               /\ outq = <<>>
               /\ \A g \in DOMAIN task :
                     /\ task[g] \in {"received", "raised", "killed", "cancelled"}
                     /\ task[g] # "received" => dict_of_tree_list[g] = parse_csv[g])
    /\ [][(stop_reason # "exception" /\ stop_reason' = "exception")
            => /\ outq # <<>>
               /\ Head(outq).exc
               /\ task[Head(outq).group_id] = "failed"
               /\ task'[Head(outq).group_id] = "raised"
               /\ dict_of_tree_list' = dict_of_tree_list
               /\ \A g \in DOMAIN task :
                     /\ task[g] = "queued" => task'[g] = "cancelled"
                     /\ (task[g] \in {"running", "finished", "failed"}
                         /\ g # Head(outq).group_id) => task'[g] = "killed"
                     /\ task[g] = "received" => task'[g] = "received"]_vars
    /\ [][stop_reason = "exception"
            => /\ task' = task
               /\ dict_of_tree_list' = dict_of_tree_list
               /\ finished_tasks' = finished_tasks]_vars
    /\ []((pc = "done" /\ stop_reason = "exception")
            => (final_saves = 1 /\ output_csv = save_dict_to_csv(dict_of_tree_list)))

\* A worker raised while another worker was running and after a third
\* group's improved result had been merged; the run has ended.
Witness_C12 ==
    /\ pc = "done"
    /\ stop_reason = "exception"
    /\ \E g \in DOMAIN task : task[g] = "killed"
    /\ \E h \in DOMAIN task :
          /\ task[h] = "received"
          /\ dict_of_tree_list[h] # parse_csv[h]

\* The rows save_dict_to_csv is to write for one group of the Solution d
GroupRows(d, g) ==
    [i \in DOMAIN d[g] |->
        <<g, i - 1, d[g][i].center_x, d[g][i].center_y, d[g][i].angle>>]

\* C13: every write of the output file, checkpoint or final save, holds for
\* every group of the Solution one row per tree of the group's current entry,
\* keyed with the group and the indexes 0..N-1, and no other row; a written
\* file always has, for every group of the input, as many rows as the group
\* has trees.
Thm_C13 ==
    /\ [](output_csv # "absent"
            => /\ \A k \in DOMAIN output_csv : output_csv[k][1] \in DOMAIN parse_csv
               /\ \A g \in DOMAIN parse_csv :
                     /\ Len(RowsOf(output_csv, g)) = Len(parse_csv[g])
                     /\ \A i \in DOMAIN RowsOf(output_csv, g) :
                           /\ RowsOf(output_csv, g)[i][1] = g
                           /\ RowsOf(output_csv, g)[i][2] = i - 1)
    /\ [][output_csv' # output_csv
            => /\ \A k \in DOMAIN output_csv' :
                     output_csv'[k][1] \in DOMAIN dict_of_tree_list'
               /\ \A g \in DOMAIN dict_of_tree_list' :
                     RowsOf(output_csv', g) = GroupRows(dict_of_tree_list', g)]_vars

\* A checkpoint has been written while one group was still waiting for a
\* worker and another group had been improved: the file holds the input rows
\* of the first and the improved rows of the second.
Witness_C13 ==
    /\ pc = "loop"
    /\ output_csv # "absent"
    /\ \E g \in DOMAIN task :
          /\ task[g] = "queued"
          /\ RowsOf(output_csv, g) = InputRows(g)
    /\ \E h \in DOMAIN task :
          /\ task[h] = "received"
          /\ dict_of_tree_list[h] # parse_csv[h]
          /\ RowsOf(output_csv, h) = GroupRows(dict_of_tree_list, h)

\* C14 as stated: whenever the count of completed groups stands at a multiple
\* of the interval, a checkpoint holding the Solution with the latest merge
\* has been written.
Cex_C14 ==
    (/\ pc \in {"loop", "finally"}
     /\ finished_tasks > 0
     /\ finished_tasks % SAVE_EVERY_N_GROUPS = 0)
    => (/\ output_csv # "absent"
        /\ output_csv = save_dict_to_csv(dict_of_tree_list))

\* C14 amended: a received result that brings the count to a multiple of the
\* interval is merged and then the checkpoint is written with that merge in
\* it, unless the time limit is found exceeded at that same result: then the
\* loop is left before the checkpoint and the final save writes the Solution
\* in its place.  No other pass of the loop writes the file.
Thm_C14 ==
    /\ [][(pc = "loop" /\ finished_tasks' = finished_tasks + 1 /\ ~time_up)
            => /\ dict_of_tree_list' = merge_result(dict_of_tree_list, Head(outq))
               /\ IF finished_tasks' % SAVE_EVERY_N_GROUPS = 0
                  THEN output_csv' = save_dict_to_csv(dict_of_tree_list')
                  ELSE output_csv' = output_csv]_vars
    /\ [][(pc = "loop" /\ finished_tasks' = finished_tasks + 1 /\ time_up)
            => /\ dict_of_tree_list' = merge_result(dict_of_tree_list, Head(outq))
               /\ output_csv' = output_csv
               /\ pc' = "finally"]_vars
    /\ [][(pc = "loop" /\ finished_tasks' = finished_tasks)
            => output_csv' = output_csv]_vars
    /\ []((/\ finished_tasks > 0
           /\ finished_tasks % SAVE_EVERY_N_GROUPS = 0
           /\ \/ pc \in {"loop", "done"}
              \/ pc = "finally" /\ stop_reason # "timeout")
          => (/\ output_csv # "absent"
              /\ output_csv = save_dict_to_csv(dict_of_tree_list)))

\* The count has reached the interval with an improving result, the
\* checkpoint was written with it, and a task is still to be received.
Witness_C14 ==
    /\ pc = "loop"
    /\ finished_tasks = SAVE_EVERY_N_GROUPS
    /\ improved_count > 0
    /\ output_csv = save_dict_to_csv(dict_of_tree_list)
    /\ \E g \in DOMAIN task : task[g] = "running"

\* C15: a step of a worker or of the pool leaves the Solution and the output
\* file as they are; the Solution changes only in a pass of the result loop,
\* by the merge of the one result received, in at most one entry; and every
\* write of the file holds the Solution as it stands after that merge.
Thm_C15 ==
    /\ [][(\E g \in DOMAIN task : task'[g] # task[g] /\ task'[g] # "received"
                                  /\ pc' = "loop")
            => /\ dict_of_tree_list' = dict_of_tree_list
               /\ output_csv' = output_csv]_vars
    /\ [][(pc # "start" /\ dict_of_tree_list' # dict_of_tree_list)
            => /\ pc = "loop"
               /\ outq # <<>>
               /\ finished_tasks' = finished_tasks + 1
               /\ dict_of_tree_list' = merge_result(dict_of_tree_list, Head(outq))
               /\ Cardinality({g \in DOMAIN dict_of_tree_list :
                                 dict_of_tree_list'[g] # dict_of_tree_list[g]}) = 1]_vars
    /\ [][output_csv' # output_csv
            => /\ pc \in {"loop", "finally"}
               /\ output_csv' = save_dict_to_csv(dict_of_tree_list')]_vars

\* A checkpoint has been written, and a worker has since returned an
\* improving result that waits in the queue: neither the Solution nor the
\* file holds it yet.
Witness_C15 ==
    /\ pc = "loop"
    /\ output_csv # "absent"
    /\ output_csv = save_dict_to_csv(dict_of_tree_list)
    /\ outq # <<>>
    /\ ~Head(outq).exc
    /\ merge_result(dict_of_tree_list, Head(outq)) # dict_of_tree_list

\* C16: whatever was received before it, the pass of the result loop that
\* receives the result of a group leaves every other entry of the Solution
\* as it is and sets the group's entry to a value fixed by the group's input
\* and that result alone (the result's trees if its score is lower than the
\* input's side length by more than Eps, else the input); no two results
\* belong to one group.  The Solution of a run that completes normally is
\* therefore the same for every order of arrival.
Thm_C16 ==
    /\ [](\A i \in DOMAIN outq : \A j \in DOMAIN outq :
            i # j => outq[i].group_id # outq[j].group_id)
    /\ [](\A k \in DOMAIN outq : task[outq[k].group_id] \in {"finished", "failed"})
    /\ [][finished_tasks' = finished_tasks + 1
            => LET r == Head(outq)
                   g == r.group_id
               IN  /\ task[g] = "finished"
                   /\ task'[g] = "received"
                   /\ dict_of_tree_list' =
                        [dict_of_tree_list EXCEPT
                           ![g] = IF /\ r.score < SideOf(parse_csv[g])
                                     /\ SideOf(parse_csv[g]) - r.score > Eps
                                  THEN r.trees ELSE parse_csv[g]]]_vars
    /\ []((pc = "done" /\ stop_reason = "normal")
            => \A g \in DOMAIN task : task[g] = "received")

\* Two improving results of different groups wait in the queue, the one of
\* the group dispatched later in front, after a first result was merged.
Witness_C16 ==
    /\ pc = "loop"
    /\ Len(outq) >= 2
    /\ outq[1].group_id < outq[2].group_id
    /\ \A k \in 1..2 :
          /\ ~outq[k].exc
          /\ outq[k].score < SideOf(parse_csv[outq[k].group_id])
          /\ SideOf(parse_csv[outq[k].group_id]) - outq[k].score > Eps

\* C20: when the input file is missing, main() returns at once: no task list
\* and no pool exist, nothing was dispatched or received, no file is written,
\* and no further step is taken.
Thm_C20 ==
    /\ [](pc = "nofile"
            => /\ dict_of_tree_list = <<>>
               /\ task = <<>>
               /\ outq = <<>>
               /\ finished_tasks = 0
               /\ final_saves = 0
               /\ stop_reason = "none"
               /\ output_csv = "absent")
    /\ [][pc # "nofile"]_vars
    /\ [][pc' = "nofile" => pc = "start"]_vars

\* main() has returned on FileNotFoundError.
Witness_C20 ==
    /\ pc = "nofile"
    /\ output_csv = "absent"
    /\ task = <<>>

\* C27: the passing of the deadline changes nothing by itself: the pool goes
\* on dispatching and the workers go on running.  The run stops on the
\* deadline only in a pass of the result loop, and in that pass the result
\* received is merged like any other, no checkpoint is written, the pool is
\* terminated and the loop is left; no result is received afterwards and the
\* final save writes the Solution with that last merge in it.
Thm_C27 ==
    /\ [][time_up' # time_up
            => /\ time_up'
               /\ pc' = pc /\ task' = task /\ outq' = outq
               /\ dict_of_tree_list' = dict_of_tree_list
               /\ finished_tasks' = finished_tasks
               /\ output_csv' = output_csv
               /\ stop_reason' = stop_reason]_vars
    /\ [][(stop_reason # "timeout" /\ stop_reason' = "timeout")
            => /\ time_up
               /\ pc = "loop" /\ pc' = "finally"
               /\ outq # <<>>
               /\ finished_tasks' = finished_tasks + 1
               /\ LET r == Head(outq)
                      g == r.group_id
                  IN  /\ ~r.exc
                      /\ task'[g] = "received"
                      /\ dict_of_tree_list' =
                           IF /\ r.score < SideOf(dict_of_tree_list[g])
                              /\ SideOf(dict_of_tree_list[g]) - r.score > Eps
                           THEN [dict_of_tree_list EXCEPT ![g] = r.trees]
                           ELSE dict_of_tree_list
                      /\ \A h \in DOMAIN task :
                            h # g => task'[h] \in {"received", "killed", "cancelled"}
               /\ outq' = <<>>
               /\ output_csv' = output_csv]_vars
    /\ [][(pc = "loop" /\ time_up /\ finished_tasks' = finished_tasks + 1)
            => stop_reason' = "timeout"]_vars
    /\ [][stop_reason = "timeout"
            => /\ finished_tasks' = finished_tasks
               /\ dict_of_tree_list' = dict_of_tree_list
               /\ task' = task
               /\ pc = "finally"
               /\ pc' = "done"
               /\ output_csv' = save_dict_to_csv(dict_of_tree_list)]_vars
    /\ [](stop_reason = "timeout" => (time_up /\ finished_tasks >= 1))

\* The deadline passed, workers went on, and the second result received
\* stopped the run: both results are merged, the count stands at the
\* checkpoint interval and no file has been written yet.
Witness_C27 ==
    /\ pc = "finally"
    /\ stop_reason = "timeout"
    /\ finished_tasks = SAVE_EVERY_N_GROUPS
    /\ improved_count = 2
    /\ output_csv = "absent"
    /\ \E g \in DOMAIN task : task[g] = "killed"

----------------------------------------------------------------------------
(* find_best_trees_with_collision (src/python/python_sa.py)                *)
(*                                                                         *)
(* Lengths are counted in units of 0.05.  The verdict of the collision     *)
(* test of lines 109-114 depends on the geometry engine and on what        *)
(* STRtree.query returns (geometries or indices); the model lets every     *)
(* candidate tested against a non-empty index collide or not.              *)

TreeStepX == 14     \* Decimal("0.7"): the pitch of the trees in a row
RowOffsetX == 7     \* Decimal("0.7") / 2: the shift of the odd rows
RowPitch == 20      \* Decimal("1.0"): the pitch of the rows of one kind
OddRowY == 16       \* Decimal("0.8"): the height of the first odd row
HalfBase == 7       \* base_w / 2
TipY == 16          \* tip_y
TrunkH == 4         \* trunk_h

\* line 82: for n_odd in [n_even, n_even - 1]
n_odd_of(n_even, which) == IF which = 1 THEN n_even ELSE n_even - 1

\* line 87: the number of trees the row r is to take
row_quota(r, n_even, n_odd) == IF r % 2 = 0 THEN n_even ELSE n_odd

\* lines 90-92 and 100: the candidate i of row r
candidate_tree(r, i) ==
    [x |-> TreeStepX * i + (IF r % 2 = 0 THEN 0 ELSE RowOffsetX),
     y |-> IF r % 2 = 0 THEN (r \div 2) * RowPitch
           ELSE OddRowY + ((r - 1) \div 2) * RowPitch,
     angle |-> IF r % 2 = 0 THEN 0 ELSE 180]

\* The candidates of a row that were not skipped, in the order of i
RECURSIVE row_trees_of(_, _, _, _)
row_trees_of(r, i, m, kept) ==
    IF i >= m THEN <<>>
    ELSE (IF i \in kept THEN <<candidate_tree(r, i)>> ELSE <<>>)
         \o row_trees_of(r, i + 1, m, kept)

\* t.polygon.exterior.xy: the extent (minx, miny, maxx, maxy) of a tree that
\* stands upright or upside down
tree_extent(t) ==
    IF t.angle = 0
    THEN <<t.x - HalfBase, t.y - TrunkH, t.x + HalfBase, t.y + TipY>>
    ELSE <<t.x - HalfBase, t.y - TipY, t.x + HalfBase, t.y + TrunkH>>

\* lines 130-133: score = max(max_x - min_x, max_y - min_y) ** 2
layout_score(trees) ==
    LET e == envelope_from_bounds([k \in DOMAIN trees |-> tree_extent(trees[k])])
        side == Max2(e[3] - e[1], e[4] - e[2])
    IN  side * side

\* Variant: a layout with skipped trees is scored like any other.
layout_complete_any(all_trees, n) == TRUE

\* line 126: the layout holds all n trees
layout_complete(all_trees, n) == Len(all_trees) = n

\* lines 79-85: the locals on entering the first layout
GridStart(n) ==
    [n |-> n, n_even |-> 1, which |-> 1, n_odd |-> n_odd_of(1, 1),
     all_trees |-> <<>>, rest |-> n, r |-> 0,
     found |-> FALSE,       \* best_trees is not None
     best_score |-> 0,      \* float("inf") while found is FALSE
     best_trees |-> <<>>,
     discarded |-> 0,       \* layouts left at line 127 in this call
     pc |-> "row"]

GridInit ==
    /\ \E n \in 1..MaxGridN : fb = GridStart(n)
    /\ sa = <<>>
    /\ sa_pc = "off"
    /\ sa_ret = <<>>
    /\ pc = "off"
    /\ dict_of_tree_list = <<>>
    /\ task = <<>>
    /\ worker_valid = <<>>
    /\ outq = <<>>
    /\ finished_tasks = 0
    /\ improved_count = 0
    /\ time_up = FALSE
    /\ output_csv = "absent"
    /\ final_saves = 0
    /\ stop_reason = "none"

\* lines 86-123: one pass of the while loop.  Candidates are tested only
\* against an index of the trees of earlier rows (tree_index is None while
\* all_trees is empty).
FillRow ==
    /\ fb.pc = "row"
    /\ fb.rest > 0
    /\ LET m == Min2(fb.rest, row_quota(fb.r, fb.n_even, fb.n_odd))
       IN  \E kept \in SUBSET (0..(m - 1)) :
              /\ fb.all_trees = <<>> => kept = 0..(m - 1)
              /\ fb' = [fb EXCEPT
                          !.rest = @ - m,
                          !.all_trees = @ \o row_trees_of(fb.r, 0, m, kept),
                          !.r = @ + 1]
    /\ UNCHANGED <<sa_vars, main_vars>>

\* lines 125-137, then the next pair of the loops of lines 81-82
EndLayout ==
    /\ fb.pc = "row"
    /\ fb.rest = 0
    /\ LET complete == layout_complete(fb.all_trees, fb.n)
           score == layout_score(fb.all_trees)
           better == complete /\ (~fb.found \/ score < fb.best_score)
           last == fb.n_even = fb.n /\ fb.which = 2
           n_even == IF fb.which = 2 THEN fb.n_even + 1 ELSE fb.n_even
           which == IF fb.which = 2 THEN 1 ELSE 2
       IN  fb' = [fb EXCEPT
                    !.found = @ \/ better,
                    !.best_score = IF better THEN score ELSE @,
                    !.best_trees = IF better THEN fb.all_trees ELSE @,
                    !.discarded = IF complete THEN @ ELSE @ + 1,
                    !.n_even = IF last THEN @ ELSE n_even,
                    !.which = IF last THEN @ ELSE which,
                    !.n_odd = IF last THEN @ ELSE n_odd_of(n_even, which),
                    !.all_trees = IF last THEN @ ELSE <<>>,
                    !.rest = IF last THEN @ ELSE fb.n,
                    !.r = IF last THEN @ ELSE 0,
                    !.pc = IF last THEN "return" ELSE "row"]
    /\ UNCHANGED <<sa_vars, main_vars>>

\* line 139: return best_score, best_trees
GridReturn ==
    /\ fb.pc = "return"
    /\ fb' = [fb EXCEPT !.pc = "done"]
    /\ UNCHANGED <<sa_vars, main_vars>>

GridNext == FillRow \/ EndLayout \/ GridReturn

SpecGrid == GridInit /\ [][GridNext]_vars

----------------------------------------------------------------------------
(* Properties of the layout builder, checked under SpecGrid *)

\* Passes of the while loop and layouts still to come, at most
GridStepsLeft ==
    IF fb.pc = "done" THEN 0
    ELSE IF fb.pc = "return" THEN 1
    ELSE LET layouts_after == 2 * (fb.n - fb.n_even) + (2 - fb.which)
         IN  2 + 2 * fb.rest + (IF fb.r % 2 = 1 /\ fb.rest > 0 THEN 1 ELSE 0)
             + layouts_after * (2 * fb.n + 2)

\* C28: for every n >= 1 the call returns a layout of exactly n trees, never
\* None.  Every pass of the while loop leaves rest >= 0 and an even row
\* takes at least one tree, so the rows of a layout end, also for n_odd = 0;
\* a layout in which a candidate was skipped holds fewer than n trees and
\* never becomes best_trees; the layouts with n_even = n put all n trees in
\* the first row, where nothing is tested, so best_trees is set when the
\* loops end; the steps still to come decrease with every step; and the
\* returned list satisfies the assertion len(all_trees) == n of line 201.
Thm_C28 ==
    /\ [](fb.rest >= 0 /\ fb.rest <= fb.n /\ Len(fb.all_trees) <= fb.n - fb.rest)
    /\ [][(fb.pc = "row" /\ fb.rest > 0)
            => /\ fb'.r = fb.r + 1
               /\ fb'.rest <= fb.rest
               /\ fb.r % 2 = 0 => fb'.rest < fb.rest
               /\ fb.r = 0 => Len(fb'.all_trees) = fb.n - fb'.rest
               /\ fb'.best_trees = fb.best_trees]_vars
    /\ [][(fb.pc = "row" /\ fb.rest = 0 /\ Len(fb.all_trees) # fb.n)
            => /\ fb'.best_trees = fb.best_trees
               /\ fb'.best_score = fb.best_score
               /\ fb'.found = fb.found]_vars
    /\ [][fb'.best_trees # fb.best_trees
            => /\ fb.pc = "row" /\ fb.rest = 0
               /\ Len(fb.all_trees) = fb.n
               /\ fb'.best_trees = fb.all_trees
               /\ fb'.found]_vars
    /\ [](fb.found => Len(fb.best_trees) = fb.n)
    /\ []((fb.n_even = fb.n /\ fb.which = 2 /\ fb.pc = "row") => fb.found)
    /\ [](fb.pc \in {"return", "done"}
            => /\ fb.found
               /\ Len(fb.best_trees) = fb.n
               /\ fb.best_score = layout_score(fb.best_trees))
    /\ [](GridStepsLeft >= 0 /\ (GridStepsLeft = 0 <=> fb.pc = "done"))
    /\ [][GridStepsLeft' < GridStepsLeft]_vars

\* The call has returned n >= 3 trees, among them a tree of an odd row,
\* after a layout that lost a candidate to a collision was discarded.
Witness_C28 ==
    /\ fb.pc = "done"
    /\ fb.n >= 3
    /\ fb.found
    /\ fb.discarded >= 1
    /\ Len(fb.best_trees) = fb.n
    /\ \E k \in DOMAIN fb.best_trees : fb.best_trees[k].angle = 180

====
